---- MODULE Spec2Model ----
(***************************************************************************)
(* Model of the DFLIX scraping backend: the shared session of              *)
(* backend/src/services/authService.js, the crawl of                       *)
(* backend/src/services/scraperService.js (scrapeMovies and its walkers),  *)
(* the movies cache it feeds, and the deduplication of the crawled         *)
(* records.                                                                *)
(*                                                                         *)
(* JavaScript strings that the code takes apart (titles, years, urls) are  *)
(* sequences of one-character strings, so that toLowerCase, trim, replace, *)
(* split and the template-literal concatenation are computed as the code   *)
(* computes them.  Time is counted in minutes.                             *)
(***************************************************************************)
EXTENDS Integers, Sequences, FiniteSets, TLC

VARIABLES
  \* ---- AuthService (authService.js:25-27)
  isAuthenticated, lastAuthTime, authRetries,
  \* ---- ScraperService (scraperService.js:7-9, 130-133)
  moviesCache,            \* this.moviesCache: [arr: the array referenced, items: its contents]
  lastScrapeTime, isScrapingInProgress, hasRetriedAuth,
  \* ---- callers
  pc,                     \* position of each caller
  crawl,                  \* locals and call record of each scrapeMovies() caller
  auth,                   \* call record of each authenticate() in progress
  stale,                  \* a request was answered 401 or 403 and no login has succeeded since
  now,                    \* the clock, in minutes
  \* ---- the Deduplicator taken alone
  pcD, dedupIn, dedupOut,
  \* ---- the RecordExtractor's title rule taken alone
  pcX, extractIn, extractOut,
  \* ---- one pass of authenticate()'s try block taken alone
  login,                  \* its position, the login page it read, the requests it issued
  \* ---- the enrich-all route taken alone
  enrichAll               \* its position, the batch in hand, the requests in flight

vars == <<isAuthenticated, lastAuthTime, authRetries, moviesCache, lastScrapeTime,
          isScrapingInProgress, hasRetriedAuth, pc, crawl, auth,
          stale, now, pcD, dedupIn, dedupOut, pcX, extractIn, extractOut,
          login, enrichAll>>

\* null in a field that otherwise holds a time (this.lastAuthTime, this.lastScrapeTime)
NoTime == -1

(***************************************************************************)
(* Strings                                                                 *)
(***************************************************************************)
UpperLetters == <<"A","B","C","D","E","F","G","H","I","J","K","L","M",
                  "N","O","P","Q","R","S","T","U","V","W","X","Y","Z">>
LowerLetters == <<"a","b","c","d","e","f","g","h","i","j","k","l","m",
                  "n","o","p","q","r","s","t","u","v","w","x","y","z">>
DigitChars == {"0","1","2","3","4","5","6","7","8","9"}

Range(s) == {s[i] : i \in DOMAIN s}

\* String.prototype.toLowerCase on one character
LowerChar(c) ==
  IF \E i \in DOMAIN UpperLetters : UpperLetters[i] = c
  THEN LowerLetters[CHOOSE i \in DOMAIN UpperLetters : UpperLetters[i] = c]
  ELSE c

ToLowerCase(s) == [i \in DOMAIN s |-> LowerChar(s[i])]

\* the regular expression classes \w and \s
IsWordChar(c) == c \in Range(UpperLetters) \cup Range(LowerLetters) \cup DigitChars \cup {"_"}
IsSpaceChar(c) == c \in {" ", "\n"}

\* String.prototype.trim
RECURSIVE TrimLeft(_)
TrimLeft(s) == IF s # <<>> /\ IsSpaceChar(Head(s)) THEN TrimLeft(Tail(s)) ELSE s
RECURSIVE TrimRight(_)
TrimRight(s) ==
  IF s # <<>> /\ IsSpaceChar(s[Len(s)]) THEN TrimRight(SubSeq(s, 1, Len(s) - 1)) ELSE s
Trim(s) == TrimRight(TrimLeft(s))

\* s.replace(/[^\w\s]/g, '')
StripNonWord(s) == SelectSeq(s, LAMBDA c : IsWordChar(c) \/ IsSpaceChar(c))

\* s.split('/').pop(): what follows the last slash, the whole string without one
LastSegment(s) ==
  IF \E i \in DOMAIN s : s[i] = "/"
  THEN LET i == CHOOSE k \in DOMAIN s : s[k] = "/" /\ \A j \in DOMAIN s : s[j] = "/" => j <= k
       IN SubSeq(s, i + 1, Len(s))
  ELSE s

(***************************************************************************)
(* Records and their deduplication (scraperService.js:630-690)             *)
(***************************************************************************)
Link(url, quality, format) == [url |-> url, quality |-> quality, format |-> format]

Movie(id, title, year, links, poster, description, detailUrl, genres, rating, language, quality, size) ==
  [id |-> id, title |-> title, year |-> year, downloadUrls |-> links, poster |-> poster,
   description |-> description, detailUrl |-> detailUrl, genres |-> genres,
   rating |-> rating, language |-> language, quality |-> quality, size |-> size]

\* movie.title?.toLowerCase().trim().replace(/[^\w\s]/g, '') || ''
NormalizedTitle(movie) == StripNonWord(Trim(ToLowerCase(movie.title)))

\* movie.downloadUrls?.[0]?.url || ''
FirstUrl(movie) == IF movie.downloadUrls = <<>> THEN <<>> ELSE movie.downloadUrls[1].url

\* `${normalizedTitle}_${movie.year}_${firstUrl.split('/').pop()}`
DedupKey(movie) ==
  NormalizedTitle(movie) \o <<"_">> \o movie.year \o <<"_">> \o LastSegment(FirstUrl(movie))

\* were line 642 to hold for every id
NeedsNewIdAlways(id) == TRUE

\* !movie.id || movie.id.startsWith('movie_0') || movie.id.startsWith('movie_1')
\* an id is <<the segment after "movie_", a serial>>, a missing id is <<>>
NeedsNewId(id) == id = <<>> \/ id[1] \in {"0", "1"}

UniqueId(i) == <<"unique", i>>

\* existingMovie.downloadUrls.some(existing => existing.url === newUrl.url ||
\*   (existing.quality === newUrl.quality && existing.format === newUrl.format))
LinkExists(links, newUrl) ==
  \E k \in DOMAIN links :
     \/ links[k].url = newUrl.url
     \/ links[k].quality = newUrl.quality /\ links[k].format = newUrl.format

\* the loop of lines 655-664 over movie.downloadUrls from position k
RECURSIVE MergeLinks(_, _, _)
MergeLinks(links, newLinks, k) ==
  IF k > Len(newLinks) THEN links
  ELSE MergeLinks(IF LinkExists(links, newLinks[k]) THEN links ELSE Append(links, newLinks[k]),
                  newLinks, k + 1)

\* were the merge of lines 655-664 to push every link of `movie`
MergeIntoAppending(existing, movie) ==
  [existing EXCEPT !.downloadUrls = @ \o movie.downloadUrls]

\* were lines 667-685 to take every field that `movie` has
MergeIntoOverwriting(existing, movie) ==
  [existing EXCEPT
     !.downloadUrls = MergeLinks(@, movie.downloadUrls, 1),
     !.poster       = IF movie.poster # "" THEN movie.poster ELSE @,
     !.description  = IF movie.description # "" THEN movie.description ELSE @,
     !.detailUrl    = IF movie.detailUrl # <<>> THEN movie.detailUrl ELSE @,
     !.genres       = IF movie.genres # <<>> THEN movie.genres ELSE @,
     !.rating       = IF movie.rating # "" THEN movie.rating ELSE @,
     !.language     = IF movie.language # "" THEN movie.language ELSE @]

\* lines 648-685: merge `movie` into the record already seen under its key
MergeInto(existing, movie) ==
  [existing EXCEPT
     !.downloadUrls = MergeLinks(@, movie.downloadUrls, 1),
     !.poster       = IF @ = "" /\ movie.poster # "" THEN movie.poster ELSE @,
     !.description  = IF @ = "" /\ movie.description # "" THEN movie.description ELSE @,
     !.detailUrl    = IF @ = <<>> /\ movie.detailUrl # <<>> THEN movie.detailUrl ELSE @,
     !.genres       = IF @ = <<>> /\ movie.genres # <<>> THEN movie.genres ELSE @,
     !.rating       = IF @ = "" /\ movie.rating # "" THEN movie.rating ELSE @,
     !.language     = IF @ = "" /\ movie.language # "" THEN movie.language ELSE @]

\* seen.has(key): `keys` are the keys set so far, in insertion order
SeenHas(keys, key) == \E k \in DOMAIN keys : keys[k] = key

\* The loop of lines 634-687.  objs[i] is the object at position i of `movies`
\* (the objects are mutated in place), keys[k] the key under which canon[k], a
\* position of `movies`, was entered in `seen` and pushed on uniqueMovies.
RECURSIVE DedupLoop(_, _, _, _)
DedupLoop(objs, i, keys, canon) ==
  IF i > Len(objs)
  THEN [movies |-> objs, unique |-> [k \in 1..Len(canon) |-> objs[canon[k]]]]
  ELSE LET key == DedupKey(objs[i]) IN
       IF ~SeenHas(keys, key)
       THEN DedupLoop([objs EXCEPT ![i].id = IF NeedsNewId(@) THEN UniqueId(i) ELSE @],
                      i + 1, Append(keys, key), Append(canon, i))
       ELSE LET e == canon[CHOOSE k \in DOMAIN keys : keys[k] = key] IN
            DedupLoop([objs EXCEPT ![e] = MergeInto(objs[e], objs[i])], i + 1, keys, canon)

\* deduplicateMovies(movies): .unique is the array returned, .movies the argument
\* array as the call leaves it
DeduplicateMovies(movies) == DedupLoop(movies, 1, <<>>, <<>>)

(***************************************************************************)
(* Sample records: what the extractors return for sample listing nodes and *)
(* file links.  poster: null and detailUrl: null of a directory record     *)
(* (lines 595-597) are written as the empty value, which the merge tests   *)
(* the same way (!existingMovie.poster).                                   *)
(***************************************************************************)
Y2021 == <<"2","0","2","1">>
TitleAlpha == <<"A","l","p","h","a">>
TitleAlphaBang == <<"a","l","p","h","a","!">>
TitleBeta == <<"B","e","t","a">>
TitleGamma == <<"G","a","m","m","a">>
UrlAlphaHd == <<"h","/","a","l","p","h","a","_","h","d",".","m","p","4">>
UrlAlphaHdMirror == <<"h","/","m","/","a","l","p","h","a","_","h","d",".","m","p","4">>
UrlAlphaHdUpper == <<"h","/","A","L","P","H","A","_","H","D",".","m","p","4">>
UrlBetaPage == <<"h","/","b","e","t","a">>
UrlBetaMkv == <<"h","/","b","e","t","a",".","m","k","v">>
UrlGammaAvi == <<"h","/","M","o","v","i","e","s","/","g","a","m","m","a",".","a","v","i">>
UrlUnderscoreA == <<"h","/","x",".","m","p","4","/","_">>
UrlUnderscoreB == <<"h","/","y",".","m","p","4","/","_">>

\* extractMovieData on a card of the primary listing that links a video file
MainAlpha == Movie(<<"main", 0>>, TitleAlpha, Y2021, <<Link(UrlAlphaHd, "HD", "MP4")>>,
                   "poster-a", "", UrlAlphaHd, <<>>, "", "", "HD", "")
\* extractMovieData on a card that links a detail page
MainBeta == Movie(<<"main", 1>>, TitleBeta, <<>>, <<>>, "", "", UrlBetaPage, <<>>, "", "", "", "")
\* extractMovieData on rows of further pages
PageAlpha == Movie(<<"pagination", 0>>, TitleAlphaBang, Y2021,
                   <<Link(UrlAlphaHdMirror, "1080p", "MP4")>>,
                   "poster-b", "", UrlAlphaHdMirror, <<>>, "", "English", "1080p", "")
PageAlphaUpper == Movie(<<"pagination", 1>>, TitleAlphaBang, Y2021,
                   <<Link(UrlAlphaHdUpper, "1080p", "MP4")>>,
                   "", "", UrlAlphaHdUpper, <<>>, "", "", "1080p", "")
\* extractMovieFromFileLink on a file link of a probed directory
DirGamma == Movie(<<"dir", 0>>, TitleGamma, Y2021, <<Link(UrlGammaAvi, "Unknown", "avi")>>,
                  "", "Gamma (2021) - Unknown AVI", <<>>, <<>>, "", "", "Unknown", "")
DirAlpha == Movie(<<"dir", 1>>, TitleAlpha, Y2021, <<Link(UrlAlphaHd, "HD", "mp4")>>,
                  "", "Alpha (2021) - HD MP4", <<>>, <<>>, "", "", "HD", "")
\* nodes whose text carries underscores and no year
MainUnderscore == Movie(<<"main", 2>>, <<"a","_">>, <<>>, <<>>, "", "", <<>>, <<>>, "", "", "", "")
PageUnderscoreA == Movie(<<"pagination", 2>>, <<"a">>, <<>>,
                         <<Link(UrlUnderscoreA, "Unknown", "MP4/_")>>,
                         "", "", UrlUnderscoreA, <<>>, "", "", "", "")
PageUnderscoreB == Movie(<<"pagination", 3>>, <<"a","_">>, <<>>,
                         <<Link(UrlUnderscoreB, "Unknown", "MP4/_")>>,
                         "", "", UrlUnderscoreB, <<>>, "", "", "", "")

\* records built by hand with a title, a year and one link that has a url only:
\* the missing id, quality and format are written as the empty value
SynthAlpha == Movie(<<>>, TitleAlpha, Y2021, <<Link(UrlAlphaHd, "", "")>>,
                    "", "", <<>>, <<>>, "", "", "", "")
SynthAlphaUpper == Movie(<<>>, TitleAlphaBang, Y2021, <<Link(UrlAlphaHdUpper, "", "")>>,
                         "", "", <<>>, <<>>, "", "", "", "")

\* a record with the id of the documented movie object, "movie_1"
LegacyBeta == Movie(<<"1">>, TitleBeta, Y2021, <<Link(UrlBetaMkv, "1080p", "MKV")>>,
                    "poster-c", "", UrlBetaPage, <<>>, "8.5", "English", "1080p", "")

\* MainBeta once enrichMovieData has replaced its links by the two anchors of
\* its detail page, both files of unknown quality in the same container
UrlBetaMkvTwo == <<"h","/","b","e","t","a","2",".","m","k","v">>
EnrichedBeta == [MainBeta EXCEPT !.downloadUrls = <<Link(UrlBetaMkv, "Unknown", "MKV"),
                                                    Link(UrlBetaMkvTwo, "Unknown", "MKV")>>]

SampleMovies == <<MainAlpha, MainBeta, PageAlpha, PageAlphaUpper, DirGamma, DirAlpha,
                  MainUnderscore, PageUnderscoreA, PageUnderscoreB, SynthAlpha,
                  SynthAlphaUpper, LegacyBeta, EnrichedBeta>>

\* longest list handed to the Deduplicator taken alone
MaxLen == 3

RECURSIVE SeqsUpTo(_, _)
SeqsUpTo(S, n) ==
  IF n = 0 THEN {<<>>}
  ELSE LET shorter == SeqsUpTo(S, n - 1) IN
       shorter \cup {Append(q, x) : q \in {r \in shorter : Len(r) = n - 1}, x \in S}

DedupInputs == SeqsUpTo(Range(SampleMovies), MaxLen)

(***************************************************************************)
(* RecordExtractor: the title of a node (scraperService.js:163-188)        *)
(***************************************************************************)
Tok1080P == <<"1","0","8","0","P">>
TokCamRip == <<"C","A","M","-","R","I","P">>
TokWebDl == <<"W","E","B","-","D","L">>

\* s.includes(sub)
Contains(s, sub) ==
  \E i \in 0..(Len(s) - Len(sub)) : SubSeq(s, i + 1, i + Len(sub)) = sub

\* s.split('\n')[0]
FirstLine(s) ==
  IF \E i \in DOMAIN s : s[i] = "\n"
  THEN LET i == CHOOSE k \in DOMAIN s : s[k] = "\n" /\ \A j \in DOMAIN s : s[j] = "\n" => k <= j
       IN SubSeq(s, 1, i - 1)
  ELSE s

\* line 176: the test that ends the loop over the selectors
Acceptable(title) ==
  /\ title # <<>>
  /\ title # Tok1080P
  /\ title # TokCamRip
  /\ ~Contains(title, TokWebDl)

\* lines 172-180 from the k-th selector that matches a descendant of the node:
\* its trimmed text is assigned, and the loop ends if the text is acceptable
RECURSIVE SelectTitle(_, _, _)
SelectTitle(title, matched, k) ==
  IF k > Len(matched) THEN title
  ELSE LET text == Trim(matched[k]) IN
       IF Acceptable(text) THEN text ELSE SelectTitle(text, matched, k + 1)

\* lines 183-188: the first line of the node's own text when no title was set
FallbackTitle(nodeText) ==
  LET elementText == Trim(FirstLine(Trim(nodeText))) IN
  IF elementText # <<>> /\ ~Contains(elementText, Tok1080P) /\ ~Contains(elementText, TokCamRip)
  THEN elementText ELSE <<>>

\* movie.title after lines 163-188; `matched` holds the texts of the first
\* descendants that the selectors of lines 164-170 match, in that order
ExtractTitle(matched, nodeText) ==
  LET title == SelectTitle(<<>>, matched, 1) IN
  IF title = <<>> THEN FallbackTitle(nodeText) ELSE title

\* texts of title elements and of nodes
TextWebDl == <<"A"," ","W","E","B","-","D","L">>
TextCamRipPadded == <<" ","C","A","M","-","R","I","P"," ">>
TextTwoLines == <<"B","e","t","a","\n","1","0","8","0","P">>
ElementTexts == {<<>>, TitleAlpha, Tok1080P, TextCamRipPadded, TextWebDl, TitleBeta}
NodeTexts == {<<>>, TitleGamma, TextWebDl, TextTwoLines, Tok1080P}
MaxMatched == 2
ExtractInputs ==
  [matched : SeqsUpTo(ElementTexts, MaxMatched), text : NodeTexts]

(***************************************************************************)
(* Records of file links (scraperService.js:562-628)                       *)
(***************************************************************************)
\* String.prototype.toUpperCase
UpperChar(c) ==
  IF \E i \in DOMAIN LowerLetters : LowerLetters[i] = c
  THEN UpperLetters[CHOOSE i \in DOMAIN LowerLetters : LowerLetters[i] = c]
  ELSE c

ToUpperCase(s) == [i \in DOMAIN s |-> UpperChar(s[i])]

\* the smallest member of a non-empty set of positions
First(S) == CHOOSE i \in S : \A j \in S : i <= j

\* (19|20)\d{2} matches at position i of s
YearAt(s, i) ==
  /\ i >= 1 /\ i + 3 <= Len(s)
  /\ <<s[i], s[i + 1]>> \in {<<"1","9">>, <<"2","0">>}
  /\ s[i + 2] \in DigitChars /\ s[i + 3] \in DigitChars

\* extractYearFromFilename, lines 620-623; thisYear is new Date().getFullYear()
ExtractYearFromFilename(filename, thisYear) ==
  LET at == {i \in DOMAIN filename : YearAt(filename, i)} IN
  IF at # {} THEN SubSeq(filename, First(at), First(at) + 3) ELSE thisYear

\* the alternatives of the regular expression of line 626, in its order
QualityTokens == <<<<"7","2","0","p">>, <<"1","0","8","0","p">>, <<"4","K">>, <<"2","1","6","0","p">>, <<"H","D">>, <<"S","D">>,
                   <<"C","A","M">>, <<"T","S">>, <<"D","V","D","R","i","p">>, <<"B","R","R","i","p">>, <<"B","l","u","R","a","y">>>>

TextUnknown == <<"U","n","k","n","o","w","n">>
TextUnknownMovie == <<"U","n","k","n","o","w","n"," ","M","o","v","i","e">>
TextUnknownFormat == <<"U","N","K","N","O","W","N">>

\* token k matches at position i of s, letter case ignored (the flag i)
TokenAt(s, i, k) ==
  /\ i + Len(QualityTokens[k]) - 1 <= Len(s)
  /\ ToLowerCase(SubSeq(s, i, i + Len(QualityTokens[k]) - 1)) = ToLowerCase(QualityTokens[k])

\* extractQualityFromFilename, lines 625-628: the leftmost match, and at that
\* position the first alternative that matches
ExtractQualityFromFilename(filename) ==
  LET at == {i \in DOMAIN filename : \E k \in DOMAIN QualityTokens : TokenAt(filename, i, k)} IN
  IF at = {} THEN TextUnknown
  ELSE LET i == First(at)
           k == First({t \in DOMAIN QualityTokens : TokenAt(filename, i, t)})
       IN SubSeq(filename, i, i + Len(QualityTokens[k]) - 1)

\* s.replace(/\.[^.]+$/, '')
RemoveExtension(s) ==
  LET dots == {i \in DOMAIN s : s[i] = "."} IN
  IF dots # {} /\ (CHOOSE i \in dots : \A j \in dots : j <= i) < Len(s)
  THEN SubSeq(s, 1, (CHOOSE i \in dots : \A j \in dots : j <= i) - 1)
  ELSE s

\* s.replace(/_(19|20)\d{2}_.*/, '') with mark "_", and
\* s.replace(/\.(19|20)\d{2}\..*/, '') with mark "."
RemoveFromYear(s, mark) ==
  LET at == {i \in DOMAIN s : /\ s[i] = mark
                              /\ YearAt(s, i + 1)
                              /\ i + 5 <= Len(s)
                              /\ s[i + 5] = mark} IN
  IF at # {} THEN SubSeq(s, 1, First(at) - 1) ELSE s

\* s.replace(/[\._]/g, ' ')
DotsToSpaces(s) == [i \in DOMAIN s |-> IF s[i] \in {".", "_"} THEN " " ELSE s[i]]

\* s.replace(/\s+/g, ' ')
RECURSIVE CollapseSpaces(_)
CollapseSpaces(s) ==
  IF s = <<>> THEN <<>>
  ELSE IF IsSpaceChar(Head(s))
       THEN IF Len(s) > 1 /\ IsSpaceChar(s[2])
            THEN CollapseSpaces(Tail(s))
            ELSE <<" ">> \o CollapseSpaces(Tail(s))
       ELSE <<Head(s)>> \o CollapseSpaces(Tail(s))

\* extractTitleFromFilename, lines 606-618
ExtractTitleFromFilename(filename) ==
  LET title == Trim(CollapseSpaces(DotsToSpaces(
                 RemoveFromYear(RemoveFromYear(RemoveExtension(filename), "_"), "."))))
  IN IF title = <<>> THEN TextUnknownMovie ELSE title

\* filename.split('.').pop()?.toUpperCase() || 'UNKNOWN', line 581
FormatOfFilename(filename) ==
  LET dots == {i \in DOMAIN filename : filename[i] = "."}
      last == IF dots = {} THEN filename
              ELSE SubSeq(filename, (CHOOSE i \in dots : \A j \in dots : j <= i) + 1,
                          Len(filename))
  IN IF last = <<>> THEN TextUnknownFormat ELSE ToUpperCase(last)

\* extractMovieFromFileLink, lines 562-604, on a link whose text is `filename`:
\* the fields that the file name decides
ExtractMovieFromFileLink(filename, thisYear) ==
  [title   |-> ExtractTitleFromFilename(filename),
   year    |-> ExtractYearFromFilename(filename, thisYear),
   quality |-> ExtractQualityFromFilename(filename),
   format  |-> FormatOfFilename(filename)]

\* file names: a stem, then a year, a quality and an extension, each of them
\* written in one of the ways of the sample or left out
FileStems == {<<>>, <<"a">>, TitleGamma}
FileYears == {<<>>, <<".","2","0","2","1">>, <<"_","2","0","2","1","_","x">>, <<"_","1","9","9","9">>}
FileQualities == {<<>>, <<".","H","D">>, <<".","1","0","8","0","p">>, <<"_","c","a","m">>}
FileExtensions == {<<".","m","k","v">>, <<".","a","v","i">>}
FileNames ==
  {stem \o year \o quality \o ext :
     stem \in FileStems, year \in FileYears, quality \in FileQualities, ext \in FileExtensions}

\* new Date().getFullYear().toString() on the day of the crawl
ThisYears == {<<"2","0","2","5">>, <<"2","0","2","6">>}

FileInputs == [filename : FileNames, thisYear : ThisYears]

(***************************************************************************)
(* Node selection (scraperService.js:37-78 and 401-441)                    *)
(***************************************************************************)
\* movieSelectors of lines 38-52
MainSelectors ==
  <<".card", ".movie-item", ".movie-card", ".film-item", ".video-item", ".media-item",
    "tr[data-name]", "tr:has(td)", ".list-item", "li:has(a[href*=movie])",
    "li:has(a[href*=film])", "div:has(img[src*=poster])", "div:has(img[src*=thumb])">>

\* movieSelectors of lines 405-418
PageSelectors ==
  <<".movie-item", ".movie-card", ".film-item", ".video-item", ".media-item",
    "tr[data-name]", "tr:has(td)", ".list-item", "li:has(a[href*=movie])",
    "li:has(a[href*=film])", "div:has(img[src*=poster])", "div:has(img[src*=thumb])">>

\* the rows after the first of the first table, and the anchors of lines 76 and 439
TableRows == "table tr"
MovieLinks == "a[href*=.mp4], ..."

\* the loop of lines 56-63 and 422-428 from the k-th selector, then the
\* fallbacks of lines 66-78 and 431-440; page[s] is the set of nodes that
\* selector s matches on the page
RECURSIVE SelectNodes(_, _, _)
SelectNodes(selectors, page, k) ==
  IF k <= Len(selectors)
  THEN IF page[selectors[k]] # {} THEN page[selectors[k]]
       ELSE SelectNodes(selectors, page, k + 1)
  ELSE IF page[TableRows] # {} THEN page[TableRows] ELSE page[MovieLinks]

\* sample pages: cards, items, table rows and links in every combination
NodeSets == {{}, {"n1"}, {"n2"}}
VariedSelectors == {".card", ".movie-item", "tr:has(td)", TableRows, MovieLinks}
CascadePages ==
  {[s \in Range(MainSelectors) \cup {TableRows, MovieLinks} |->
      IF s \in VariedSelectors THEN f[s] ELSE {}] : f \in [VariedSelectors -> NodeSets]}

(***************************************************************************)
(* Callers, configuration and bounds                                       *)
(***************************************************************************)
\* callers of scrapeMovies(): POST /movies/refresh and Scheduler.runScrapingJob
Crawlers == {"refresh", "cron"}
\* callers of the session alone: POST /auth/login, Scheduler.runAuthRefreshJob,
\* the poster proxy
AuthCallers == {"login", "poster"}
Callers == Crawlers \cup AuthCallers

\* config.scraping.maxRetries
MaxRetries == 3
\* 60 * 60 * 1000 ms, in minutes
SessionTTL == 60
\* maxPages of scrapePaginatedPages
MaxPages == 20
MaxDirLinks == 50
MaxSubdirs == 10
\* directoryPaths, lines 465-477, holds 11 paths: the walker is followed over
\* the first MaxDirectoryPaths of them
MaxDirectoryPaths == 2

\* the clock stops here
MaxTime == 61
\* how many further-page urls a primary listing may carry
PageUrlCounts == {0, 1}
WalkPageCounts == {2, 21}
DirLinkCounts == {0, 8, 12, 60}
WalkResponses == {"200", "204", "401", "timeout"}
\* records the directory probes of one crawl may find
MaxDirMovies == 1
\* failed attempts one authenticate() call is followed through
MaxAttempts == 4
\* this.authRetries is followed up to here
RetryCap == 4

\* the clock advances by these steps
Ticks == {30, 31}

\* what a request ends in: a status, or no response at all
Responses == {"200", "204", "401", "403", "timeout"}

\* error.message.includes('401') || error.message.includes('403'), the message
\* being axios's "Request failed with status code N", "timeout of N ms exceeded"
\* or "Movies page returned status: N"
IsAuthError(resp) == resp \in {"401", "403"}

(***************************************************************************)
(* AuthService                                                             *)
(***************************************************************************)
SessionNow == [a |-> isAuthenticated, t |-> lastAuthTime, r |-> authRetries]
SetSession(s) == isAuthenticated' = s.a /\ lastAuthTime' = s.t /\ authRetries' = s.r

\* reset(), lines 206-208
AfterReset == [a |-> FALSE, t |-> NoTime, r |-> 0]
\* authenticate(), lines 154-156
AfterAuthSuccess == [a |-> TRUE, t |-> now, r |-> 0]
\* were line 165 missing
AfterAuthFailureKeeping(s) == [a |-> s.a, t |-> s.t, r |-> s.r + 1]

\* authenticate(), lines 165-166
AfterAuthFailure(s) == [a |-> FALSE, t |-> s.t, r |-> s.r + 1]

\* were line 168 to compare with <=
MayRetryInclusive(retries) == retries <= MaxRetries

\* line 168
MayRetry(retries) == retries < MaxRetries

\* were line 182 to compare with <=
NeedsAuthenticationInclusive(s, time) ==
  LET oneHourAgo == time - SessionTTL IN
  ~s.a \/ s.t = NoTime \/ s.t <= oneHourAgo

\* ensureAuthenticated(), lines 180-182
NeedsAuthentication(s, time) ==
  LET oneHourAgo == time - SessionTTL IN
  ~s.a \/ s.t = NoTime \/ s.t < oneHourAgo

\* What is recorded of a caller's authenticate() call: whether it is under way,
\* who made it (ensureAuthenticated() or the caller itself), the login sequences
\* it has begun, this.authRetries when it was entered, whether the session was
\* written by nobody else while it ran, and how it ended.
NoAuthCall == [active |-> FALSE, via |-> "none", attempts |-> 0, startRetries |-> 0,
               alone |-> TRUE, outcome |-> "none"]

\* entering authenticate(): the login sequence of the first attempt is under way
NewAuthCall(s, via) ==
  [active |-> TRUE, via |-> via, attempts |-> 1, startRetries |-> s.r, alone |-> TRUE,
   outcome |-> "none"]

\* the other authenticate() calls under way have had the session written under them
Disturb(a, p) ==
  [q \in Callers |-> IF q # p /\ a[q].active THEN [a[q] EXCEPT !.alone = FALSE] ELSE a[q]]

NotStale == FALSE
Denied(resp) == resp \in {"401", "403"}

(***************************************************************************)
(* AuthService: the login page and the answers to one pass of the login    *)
(***************************************************************************)
\* the paths of lines 84-89
CommonDemoUrls == 4

\* What the selectors of lines 44-52 and line 122 find on the login page:
\* anchor: a demo anchor with an href ("href"), without one ("bare"), or none;
\* control: a demo button or input whose onclick assigns location.href
\* ("onclick"), that stands in a form ("inForm"), that does neither ("bare"),
\* or none; form: the page has a form.
LoginPages ==
  {p \in [anchor : {"none", "href", "bare"},
          control : {"none", "onclick", "inForm", "bare"},
          form : BOOLEAN] : p.control = "inForm" => p.form}

EmptyPage == [anchor |-> "none", control |-> "none", form |-> FALSE]

LoginAnswers == {"200", "204", "401", "timeout"}

\* validateStatus of line 22: client.get and client.head reject
FailedLoginAnswers == {"401", "timeout"}

\* batchSize of the enrich-all route
BatchSize == 5

\* moviesWithoutVideo.length in the enrich-all route
EnrichCounts == {0, 3, 7, 11}

\* which records of moviesWithoutVideo have a detail page to request (lines
\* 693-695 return at once for the others): all, or all but every `skip`-th
SkipSteps == {0, 2}

NoEnrichAll == [pc |-> "idle", n |-> 0, skip |-> 0, start |-> 0, inflight |-> {}]

NoLogin == [pc |-> "idle", page |-> EmptyPage, probe |-> 0, requests |-> <<>>]

(***************************************************************************)
(* ScraperService: what the source may answer                              *)
(***************************************************************************)
\* records extractMovieData returns for the nodes of a primary listing
MainListings == {<<MainAlpha>>, <<MainBeta, MainAlpha>>}
\* records extractMoviesFromPage returns for a further page
FurtherListings == {<<>>, <<PageAlpha>>}
\* records extractMovieFromFileLink returns for the file links of a directory
DirectoryListings == {<<>>, <<DirGamma>>}
\* download links harvested from a detail page (lines 709-725)
DetailPages == {<<>>, <<Link(UrlBetaMkv, "Unknown", "MKV")>>}

Min(a, b) == IF a < b THEN a ELSE b

\* String.prototype.includes
Includes(s, sub) ==
  \E i \in 0..(Len(s) - Len(sub)) : SubSeq(s, i + 1, i + Len(sub)) = sub

VideoExtensions == {<<".","m","p","4">>, <<".","m","k","v">>, <<".","a","v","i">>,
                    <<".","w","e","b","m">>, <<".","m","o","v">>, <<".","w","m","v">>,
                    <<".","m","4","v">>, <<".","f","l","v">>, <<".","o","g","g">>}

\* isDirectVideoFile(url), lines 764-768
IsDirectVideoFile(url) == \E ext \in VideoExtensions : Includes(ToLowerCase(url), ext)

\* the next movie at or after position `from` whose enrichment issues a request
\* (lines 93-96 and 693-695), 0 when there is none
NextEnrichable(movies, from) ==
  LET S == {i \in from..Len(movies) :
              movies[i].detailUrl # <<>> /\ ~IsDirectVideoFile(movies[i].detailUrl)}
  IN IF S = {} THEN 0 ELSE CHOOSE i \in S : \A j \in S : i <= j

(***************************************************************************)
(* ScraperService: callers' state                                          *)
(***************************************************************************)
\* arr, movies, idx, pages, additional, directory and result are the locals of a
\* scrapeMovies() call (the array `movies` and its identity, the loop position,
\* allPageUrls.slice(0, maxPages).length, additionalMovies, directoryMovies,
\* the value awaited at line 132); depth counts the enclosing calls; the rest
\* records what the call did: fetch sequences begun, whether a request was
\* issued, whether every answer it got was 401/403, whether the cache or its
\* time changed while it ran, how it ended, and whether the list it returned
\* was, record for record, what the cache held at that moment.
FreshCrawl ==
  [arr |-> 0, movies |-> <<>>, idx |-> 0, pages |-> 0, additional |-> <<>>,
   directory |-> <<>>, result |-> <<>>, depth |-> 0, runs |-> 0, issued |-> FALSE,
   allDenied |-> TRUE, cacheChanged |-> FALSE, coalesced |-> FALSE, outcome |-> "none",
   inner |-> "none", error |-> "none", returnedCache |-> FALSE,
   dirLinks |-> 0, subIdx |-> 0]

InFlight(p) == pc[p] \notin {"idle", "done"}

\* a new array: an identity no live reference holds
NewArray ==
  LET used == {moviesCache.arr} \cup {crawl[q].arr : q \in {r \in Crawlers : InFlight(r)}}
  IN CHOOSE id \in 1..(Cardinality(Crawlers) + 2) :
       id \notin used /\ \A other \in 1..(Cardinality(Crawlers) + 2) : other \notin used => id <= other

\* were line 13 never to find the flag set
NeverInProgress == FALSE

\* line 13
CrawlInProgress == isScrapingInProgress

\* caller p goes on to `where`
Goto(p, where, cr, a) ==
  /\ pc' = [pc EXCEPT ![p] = where]
  /\ crawl' = IF p \in Crawlers THEN [crawl EXCEPT ![p] = cr] ELSE crawl
  /\ auth' = a

\* crawler c goes on to `where`, leaving the cache as `cache` and its time as
\* `time`; every call under way notes a change
Store(c, where, cr, a, cache, time) ==
  LET changed == cache # moviesCache \/ time # lastScrapeTime
      Note(r) == [r EXCEPT !.cacheChanged = @ \/ changed]
  IN
  /\ moviesCache' = cache
  /\ lastScrapeTime' = time
  /\ pc' = [pc EXCEPT ![c] = where]
  /\ crawl' = [q \in Crawlers |->
                 IF q = c THEN Note(cr)
                 ELSE IF InFlight(q) THEN Note(crawl[q]) ELSE crawl[q]]
  /\ auth' = a

\* an array mutated in place is seen changed through every reference to it
Mutated(arr, items) ==
  IF moviesCache.arr = arr THEN [moviesCache EXCEPT !.items = items] ELSE moviesCache

\* the locals of a call that has left its try block are gone
Settle(cr) ==
  [FreshCrawl EXCEPT !.depth = cr.depth, !.runs = cr.runs, !.issued = cr.issued,
                     !.allDenied = cr.allDenied, !.cacheChanged = cr.cacheChanged,
                     !.error = cr.error]

\* were the finally of lines 139-141 missing
FlagKept == isScrapingInProgress

\* line 140
FlagCleared == FALSE

\* scrapeMovies() returns or throws: the finally of lines 139-141, then the caller,
\* which is the catch block of an outer scrapeMovies() when the call was the
\* recursive one of line 132
Complete(c, cr, out, res, a, cache) ==
  /\ isScrapingInProgress' = FlagCleared
  /\ IF cr.depth = 0
     THEN Store(c, "done",
                [Settle(cr) EXCEPT !.outcome = out,
                                   !.returnedCache = (out = "returned" /\ res = cache.items)],
                a, cache, lastScrapeTime)
     ELSE Store(c, "retry", [Settle(cr) EXCEPT !.inner = out, !.result = res, !.depth = 0],
                a, cache, lastScrapeTime)

\* lines 24-28: ensureAuthenticated(), then the request for the primary listing
BeginSequence(c, cr, s, a, obs) ==
  /\ stale' = obs
  /\ IF NeedsAuthentication(s, now)
     THEN Goto(c, "auth", [cr EXCEPT !.issued = TRUE], [a EXCEPT ![c] = NewAuthCall(s, "ensure")])
     ELSE Goto(c, "main", [cr EXCEPT !.issued = TRUE], a)
  /\ UNCHANGED <<moviesCache, lastScrapeTime>>

\* The catch block of lines 122-138 for an error `resp` thrown in the try, with
\* the session as the try left it (s) and the other callers' records (a).
CrawlCatch(c, cr, resp, s, a, obs) ==
  LET cr1 == [cr EXCEPT !.error = resp, !.allDenied = @ /\ Denied(resp)]
  IN
  IF IsAuthError(resp)
  THEN \* authService.reset()
       /\ SetSession(AfterReset)
       /\ IF ~hasRetriedAuth
          THEN /\ hasRetriedAuth' = TRUE
               /\ IF CrawlInProgress
                  THEN \* the recursive call returns at line 15
                       /\ Goto(c, "retry", [Settle(cr1) EXCEPT !.inner = "returned",
                                                               !.result = moviesCache.items],
                               Disturb(a, c))
                       /\ stale' = obs
                       /\ UNCHANGED <<isScrapingInProgress, moviesCache, lastScrapeTime>>
                  ELSE \* the recursive call begins a fetch sequence of its own
                       /\ isScrapingInProgress' = TRUE
                       /\ BeginSequence(c, [Settle(cr1) EXCEPT !.depth = 1, !.runs = @ + 1,
                                                               !.arr = NewArray],
                                        AfterReset, Disturb(a, c), obs)
          ELSE /\ Complete(c, cr1, "raised", <<>>, Disturb(a, c), moviesCache)
               /\ stale' = obs
               /\ UNCHANGED hasRetriedAuth
  ELSE /\ SetSession(s)
       /\ Complete(c, cr1, "raised", <<>>, a, moviesCache)
       /\ stale' = obs
       /\ UNCHANGED hasRetriedAuth

(***************************************************************************)
(* Actions: the session                                                    *)
(***************************************************************************)
UnchangedScraper ==
  UNCHANGED <<moviesCache, lastScrapeTime, isScrapingInProgress, hasRetriedAuth>>
UnchangedSession == UNCHANGED <<isAuthenticated, lastAuthTime, authRetries>>
UnchangedServices ==
  UNCHANGED <<isAuthenticated, lastAuthTime, authRetries, moviesCache, lastScrapeTime,
              isScrapingInProgress, hasRetriedAuth, pc, crawl, auth, stale, now>>

UnchangedPure ==
  UNCHANGED <<pcD, dedupIn, dedupOut, pcX, extractIn, extractOut, login, enrichAll>>

\* the login sequence of lines 35-151 ends in status 200 on the movies page
AuthSucceed(p) ==
  /\ pc[p] = "auth"
  /\ SetSession(AfterAuthSuccess)
  /\ stale' = NotStale
  /\ LET a == Disturb([auth EXCEPT ![p].active = FALSE, ![p].outcome = "returned"], p) IN
     IF p \in Crawlers
     THEN Goto(p, "main", [crawl[p] EXCEPT !.allDenied = FALSE], a)
     ELSE Goto(p, "done", FreshCrawl, a)
  /\ UnchangedScraper /\ UnchangedPure /\ UNCHANGED now

\* a request of the login sequence fails, or the movies page is not 200: the
\* catch block of lines 163-175
AuthFail(p, resp) ==
  /\ pc[p] = "auth"
  /\ resp # "200"
  /\ auth[p].attempts <= MaxAttempts
  /\ authRetries < RetryCap
  /\ LET s == AfterAuthFailure(SessionNow) IN
     IF MayRetry(s.r)
     THEN /\ SetSession(s)
          /\ Goto(p, "backoff",
                  IF p \in Crawlers
                  THEN [crawl[p] EXCEPT !.allDenied = @ /\ Denied(resp)]
                  ELSE FreshCrawl,
                  Disturb(auth, p))
          /\ UNCHANGED stale
          /\ UnchangedScraper
     ELSE LET a == Disturb([auth EXCEPT ![p].active = FALSE, ![p].outcome = "raised"], p) IN
          IF p \in Crawlers
          THEN CrawlCatch(p, crawl[p], resp, s, a, stale)
          ELSE /\ SetSession(s)
               /\ Goto(p, "done", FreshCrawl, a)
               /\ UNCHANGED stale
               /\ UnchangedScraper
  /\ UnchangedPure /\ UNCHANGED now

\* the backoff timer of line 170 fires: return this.authenticate()
AuthBackoffDone(p) ==
  /\ pc[p] = "backoff"
  /\ pc' = [pc EXCEPT ![p] = "auth"]
  /\ auth' = [auth EXCEPT ![p].attempts = @ + 1]
  /\ UNCHANGED <<crawl, stale, now>>
  /\ UnchangedSession /\ UnchangedScraper /\ UnchangedPure

\* POST /auth/login: authService.authenticate()
ExtAuthenticate(p) ==
  /\ pc[p] = "idle"
  /\ Goto(p, "auth", FreshCrawl, [auth EXCEPT ![p] = NewAuthCall(SessionNow, "direct")])
  /\ UNCHANGED <<stale, now>>
  /\ UnchangedSession /\ UnchangedScraper /\ UnchangedPure

\* Scheduler.runAuthRefreshJob, GET /proxy/poster: authService.ensureAuthenticated()
ExtEnsureAuthenticated(p) ==
  /\ pc[p] = "idle"
  /\ IF NeedsAuthentication(SessionNow, now)
     THEN Goto(p, "auth", FreshCrawl, [auth EXCEPT ![p] = NewAuthCall(SessionNow, "ensure")])
     ELSE Goto(p, "done", FreshCrawl, [auth EXCEPT ![p] = [NoAuthCall EXCEPT !.via = "ensure"]])
  /\ UNCHANGED <<stale, now>>
  /\ UnchangedSession /\ UnchangedScraper /\ UnchangedPure

\* GET /proxy/poster on a 401/403: authService.reset()
ExtReset(p) ==
  /\ pc[p] = "idle"
  /\ SetSession(AfterReset)
  /\ auth' = Disturb(auth, p)
  /\ UNCHANGED <<pc, crawl, stale, now>>
  /\ UnchangedScraper /\ UnchangedPure

ExtReturn(p) ==
  /\ pc[p] = "done"
  /\ Goto(p, "idle", FreshCrawl, [auth EXCEPT ![p] = NoAuthCall])
  /\ UNCHANGED <<stale, now>>
  /\ UnchangedSession /\ UnchangedScraper /\ UnchangedPure

Tick(d) ==
  /\ now + d <= MaxTime
  /\ now' = now + d
  /\ UNCHANGED <<pc, crawl, auth, stale>>
  /\ UnchangedSession /\ UnchangedScraper /\ UnchangedPure

(***************************************************************************)
(* Actions: scrapeMovies()                                                 *)
(***************************************************************************)
\* lines 13-16: a crawl is in progress, the cache is returned as it is
ScrapeMoviesSkip(c) ==
  /\ pc[c] = "idle"
  /\ CrawlInProgress
  /\ Goto(c, "done", [FreshCrawl EXCEPT !.coalesced = TRUE, !.outcome = "returned",
                                        !.returnedCache = TRUE], auth)
  /\ UNCHANGED <<stale, now>>
  /\ UnchangedSession /\ UnchangedScraper /\ UnchangedPure

\* lines 18-28: the flag is taken and the fetch sequence begins
ScrapeMoviesStart(c) ==
  /\ pc[c] = "idle"
  /\ ~CrawlInProgress
  /\ isScrapingInProgress' = TRUE
  /\ BeginSequence(c, [FreshCrawl EXCEPT !.runs = 1, !.arr = NewArray],
                   SessionNow, auth, stale)
  /\ UNCHANGED <<hasRetriedAuth, now>>
  /\ UnchangedSession /\ UnchangedPure

\* lines 103-109: the cache is given the array of the primary listing's records,
\* then scrapePaginatedPages requests its first page, or, with no page to visit,
\* scrapeDirectoryStructure its first directory
AfterEnrichment(c, cr) ==
  Store(c, IF cr.pages > 0 THEN "page" ELSE "dir", [cr EXCEPT !.idx = 1], auth,
        [arr |-> cr.arr, items |-> cr.movies], now)

\* the loop of lines 93-101 from position `from`
ContinueEnrichment(c, cr, from) ==
  LET i == NextEnrichable(cr.movies, from) IN
  IF i # 0
  THEN /\ Goto(c, "enrich", [cr EXCEPT !.idx = i], auth)
       /\ UNCHANGED <<moviesCache, lastScrapeTime>>
  ELSE AfterEnrichment(c, cr)

\* were line 353 to walk every page URL it found
PagesToVisitAll(n) == n

\* line 353: allPageUrls.slice(0, maxPages)
PagesToVisit(n) == Min(n, MaxPages)

\* the primary listing request of line 28 ends
MainResponse(c, resp, listing, n) ==
  /\ pc[c] = "main"
  /\ IF resp = "200"
     THEN /\ ContinueEnrichment(c, [crawl[c] EXCEPT !.movies = listing,
                                                    !.pages = PagesToVisit(n),
                                                    !.allDenied = FALSE], 1)
          /\ UNCHANGED <<stale, isScrapingInProgress, hasRetriedAuth>>
          /\ UnchangedSession
     ELSE CrawlCatch(c, crawl[c], resp, SessionNow, auth,
                     IF Denied(resp) THEN TRUE ELSE stale)
  /\ UnchangedPure /\ UNCHANGED now

\* were the catch of lines 748-750 to mark the record it could not enrich
EnrichedMarking(movie, resp, links) ==
  [movie EXCEPT !.downloadUrls = links, !.description = "unavailable"]

\* lines 698-750: the record once its detail page request has ended with resp
Enriched(movie, resp, links) ==
  IF resp \in {"200", "204"} THEN [movie EXCEPT !.downloadUrls = links] ELSE movie

\* the detail page request of line 698 ends: lines 699-750
EnrichResponse(c, resp, links) ==
  /\ pc[c] = "enrich"
  /\ resp # "200" => links = <<>>
  /\ LET cr == crawl[c]
     IN ContinueEnrichment(c,
          [cr EXCEPT !.movies[cr.idx] = Enriched(@, resp, links),
                     !.allDenied = @ /\ Denied(resp)],
          cr.idx + 1)
  /\ stale' = IF Denied(resp) THEN TRUE ELSE stale
  /\ UNCHANGED <<isScrapingInProgress, hasRetriedAuth, now>>
  /\ UnchangedSession /\ UnchangedPure

\* lines 110-113: movies.push(...additionalMovies), then the first directory
AfterPagination(c, cr) ==
  LET movies == cr.movies \o cr.additional IN
  Store(c, "dir", [cr EXCEPT !.movies = movies, !.idx = 1, !.pages = 0, !.additional = <<>>],
        auth,
        Mutated(cr.arr, movies), lastScrapeTime)

\* the loop of lines 353-373 goes on to its next url
AdvancePage(c, cr) ==
  IF cr.idx < cr.pages
  THEN /\ Goto(c, "page", [cr EXCEPT !.idx = @ + 1], auth)
       /\ UNCHANGED <<moviesCache, lastScrapeTime>>
  ELSE AfterPagination(c, cr)

\* were the error of a page request to leave scrapePaginatedPages
PageErrorThrown(c, cr, resp) ==
  CrawlCatch(c, cr, resp, SessionNow, auth,
             IF Denied(resp) THEN TRUE ELSE stale)

\* lines 369-372: the error of a page request is logged and the loop goes on
PageError(c, cr, resp) ==
  /\ AdvancePage(c, cr)
  /\ stale' = IF Denied(resp) THEN TRUE ELSE stale
  /\ UNCHANGED <<isScrapingInProgress, hasRetriedAuth>>
  /\ UnchangedSession

\* the page request of line 358 ends
PageResponse(c, resp, listing) ==
  /\ pc[c] = "page"
  /\ resp # "200" => listing = <<>>
  /\ LET cr == [crawl[c] EXCEPT !.allDenied = @ /\ Denied(resp)] IN
     IF resp = "200"
     THEN /\ Goto(c, "pageDelay", [cr EXCEPT !.additional = @ \o listing], auth)
          /\ UNCHANGED <<moviesCache, lastScrapeTime, stale, isScrapingInProgress,
                         hasRetriedAuth>>
          /\ UnchangedSession
     ELSE PageError(c, cr, resp)
  /\ UNCHANGED now
  /\ UnchangedPure

\* the delay of line 368 ends
PageDelayDone(c) ==
  /\ pc[c] = "pageDelay"
  /\ AdvancePage(c, crawl[c])
  /\ UNCHANGED <<stale, isScrapingInProgress, hasRetriedAuth, now>>
  /\ UnchangedSession /\ UnchangedPure

\* lines 114-120 and 139-141: movies.push(...directoryMovies), deduplicateMovies,
\* return uniqueMovies
AfterDirectories(c, cr) ==
  LET dd == DeduplicateMovies(cr.movies \o cr.directory) IN
  Complete(c, [cr EXCEPT !.movies = dd.movies], "returned", dd.unique, auth,
           Mutated(cr.arr, dd.movies))

\* were the catch of lines 545-550 to end the loop over the paths
AdvanceDirectoryAbort(c, cr) == AfterDirectories(c, cr)

\* the loop of lines 481-551 goes on to its next path
AdvanceDirectory(c, cr) ==
  IF cr.idx < MaxDirectoryPaths
  THEN /\ Goto(c, "dir", [cr EXCEPT !.idx = @ + 1], auth)
       /\ UNCHANGED <<moviesCache, lastScrapeTime, isScrapingInProgress>>
  ELSE AfterDirectories(c, cr)

\* were line 511 to recurse whatever the number of directory links
SubdirsToVisitUncapped(n) == n

\* lines 511-512: the subdirectories of one directory page that are fetched
SubdirsToVisit(n) == IF n > 0 /\ n < MaxDirLinks THEN Min(n, MaxSubdirs) ELSE 0

\* the directory request of line 486 ends; `links` is dirLinks.length
DirectoryResponse(c, resp, listing, links) ==
  /\ pc[c] = "dir"
  /\ resp # "200" => listing = <<>> /\ links = 0
  /\ Len(crawl[c].directory) + Len(listing) <= MaxDirMovies
  /\ LET cr == [crawl[c] EXCEPT !.allDenied = @ /\ Denied(resp)] IN
     IF resp = "200"
     THEN /\ IF SubdirsToVisit(links) > 0
             THEN Goto(c, "subdir", [cr EXCEPT !.directory = @ \o listing,
                                               !.dirLinks = links, !.subIdx = 1], auth)
             ELSE Goto(c, "dirDelay", [cr EXCEPT !.directory = @ \o listing], auth)
          /\ UNCHANGED <<moviesCache, lastScrapeTime, isScrapingInProgress>>
     ELSE AdvanceDirectory(c, cr)
  /\ stale' = IF Denied(resp) THEN TRUE ELSE stale
  /\ UNCHANGED <<hasRetriedAuth, now>>
  /\ UnchangedSession /\ UnchangedPure

\* the subdirectory request of line 518 ends: lines 519-538; only the file
\* links of the page are read, then the loop of line 512 goes on
SubdirResponse(c, resp, listing) ==
  /\ pc[c] = "subdir"
  /\ resp # "200" => listing = <<>>
  /\ Len(crawl[c].directory) + Len(listing) <= MaxDirMovies
  /\ LET cr == [crawl[c] EXCEPT !.allDenied = @ /\ Denied(resp),
                               !.directory = @ \o listing] IN
     IF cr.subIdx < SubdirsToVisit(cr.dirLinks)
     THEN Goto(c, "subdir", [cr EXCEPT !.subIdx = @ + 1], auth)
     ELSE Goto(c, "dirDelay", [cr EXCEPT !.dirLinks = 0, !.subIdx = 0], auth)
  /\ stale' = IF Denied(resp) THEN TRUE ELSE stale
  /\ UNCHANGED <<moviesCache, lastScrapeTime, isScrapingInProgress, hasRetriedAuth, now>>
  /\ UnchangedSession /\ UnchangedPure

\* the delay of line 543 ends
DirectoryDelayDone(c) ==
  /\ pc[c] = "dirDelay"
  /\ AdvanceDirectory(c, crawl[c])
  /\ UNCHANGED <<stale, hasRetriedAuth, now>>
  /\ UnchangedSession /\ UnchangedPure

\* lines 132-134 and 139-141: the recursive call has settled
RetryResume(c) ==
  /\ pc[c] = "retry"
  /\ hasRetriedAuth' = IF crawl[c].inner = "returned" THEN FALSE ELSE hasRetriedAuth
  /\ Complete(c, crawl[c], crawl[c].inner, crawl[c].result, auth, moviesCache)
  /\ UNCHANGED <<stale, now>>
  /\ UnchangedSession /\ UnchangedPure

\* the caller has its answer; Scheduler.runScrapingJob resets the session on an
\* error that names 401 or 403 (part_016 lines 108-110)
CrawlReturn(c) ==
  /\ pc[c] = "done"
  /\ Goto(c, "idle", FreshCrawl, [auth EXCEPT ![c] = NoAuthCall])
  /\ IF c = "cron" /\ crawl[c].outcome = "raised" /\ IsAuthError(crawl[c].error)
     THEN SetSession(AfterReset)
     ELSE UnchangedSession
  /\ UNCHANGED <<stale, now>>
  /\ UnchangedScraper /\ UnchangedPure

\* getMovies(), lines 753-755: the array the cache references, as it is now
GetMovies == moviesCache.items

\* getLastScrapeTime(), lines 757-759
GetLastScrapeTime == lastScrapeTime

(***************************************************************************)
(* Actions: one pass of authenticate()'s try block (authService.js:31-160) *)
(***************************************************************************)
UnchangedButLogin ==
  /\ UNCHANGED <<pcD, dedupIn, dedupOut, pcX, extractIn, extractOut, enrichAll>>
  /\ UnchangedServices

\* the request of line 35 is issued
LoginStart ==
  /\ login.pc = "idle"
  /\ login' = [login EXCEPT !.pc = "loginPage", !.requests = <<<<"login", 0>>>>]
  /\ UnchangedButLogin

\* lines 40-80: one of the demo selectors matches an element that gives a URL
\* (the href of an anchor, the location.href of an onclick handler, the action
\* of the form that encloses a button or input)
DemoUrlFound(page) == page.anchor = "href" \/ page.control \in {"onclick", "inForm"}

\* lines 120-147 when no URL was found: the first form of the page is
\* submitted, then line 150; without a form line 150 follows at once
AfterProbes(lg) ==
  IF lg.page.form
  THEN [lg EXCEPT !.pc = "form", !.probe = 0, !.requests = Append(@, <<"form", 0>>)]
  ELSE [lg EXCEPT !.pc = "verify", !.probe = 0, !.requests = Append(@, <<"movies", 0>>)]

\* the login page request of line 35 ends: lines 36-93, or the catch of line 160
LoginPageResponse(resp, page) ==
  /\ login.pc = "loginPage"
  /\ resp # "200" => page = EmptyPage
  /\ login' =
       IF resp \in FailedLoginAnswers THEN [login EXCEPT !.pc = "threw"]
       ELSE IF DemoUrlFound(page)
            THEN [login EXCEPT !.pc = "entry", !.page = page,
                               !.requests = Append(@, <<"entry", 0>>)]
            ELSE [login EXCEPT !.pc = "probe", !.page = page, !.probe = 1,
                               !.requests = Append(@, <<"probe", 1>>)]
  /\ UnchangedButLogin

\* the HEAD request of line 94 ends: lines 95-102
ProbeResponse(resp) ==
  /\ login.pc = "probe"
  /\ login' =
       IF resp = "200"
       THEN [login EXCEPT !.pc = "entry", !.probe = 0, !.requests = Append(@, <<"entry", 0>>)]
       ELSE IF login.probe < CommonDemoUrls
            THEN [login EXCEPT !.probe = @ + 1,
                               !.requests = Append(@, <<"probe", login.probe + 1>>)]
            ELSE AfterProbes(login)
  /\ UnchangedButLogin

\* the request of line 114, or of lines 142-146, ends: line 150, or the catch
EntryResponse(resp) ==
  /\ login.pc \in {"entry", "form"}
  /\ login' =
       IF resp \in FailedLoginAnswers THEN [login EXCEPT !.pc = "threw"]
       ELSE [login EXCEPT !.pc = "verify", !.requests = Append(@, <<"movies", 0>>)]
  /\ UnchangedButLogin

\* the movies page request of line 150 ends: lines 152-160
VerifyResponse(resp) ==
  /\ login.pc = "verify"
  /\ login' = [login EXCEPT !.pc = IF resp = "200" THEN "ok" ELSE "threw"]
  /\ UnchangedButLogin

(***************************************************************************)
(* Actions: POST /movies/enrich-all (unnamed/part_001:400-475)             *)
(***************************************************************************)
UnchangedButEnrichAll ==
  /\ UNCHANGED <<pcD, dedupIn, dedupOut, pcX, extractIn, extractOut, login>>
  /\ UnchangedServices

\* were line 432 to take all the records that are left
BatchEndAll(start, n) == n

\* line 432: slice(i, i + batchSize) ends after this record
BatchEnd(start, n) == Min(start + BatchSize, n)

\* lines 431-451 from i = start: the detail page requests of the batch are
\* issued together; with none to issue, Promise.all settles at once
LaunchBatch(ea, start) ==
  LET batch == {k \in (start + 1)..BatchEnd(start, ea.n) : ea.skip = 0 \/ k % ea.skip # 0} IN
  [ea EXCEPT !.start = start,
             !.inflight = batch,
             !.pc = IF batch # {} THEN "batch"
                    ELSE IF start + BatchSize < ea.n THEN "pause" ELSE "done"]

\* lines 400-431: the route is called with n records without links in the
\* cache; ensureAuthenticated() of line 423 returns or throws
EnrichAllStart(n, skip, authOk) ==
  /\ enrichAll.pc = "idle"
  /\ enrichAll' =
       IF n = 0 THEN [enrichAll EXCEPT !.pc = "done"]
       ELSE IF ~authOk THEN [enrichAll EXCEPT !.pc = "failed", !.n = n]
       ELSE LaunchBatch([enrichAll EXCEPT !.n = n, !.skip = skip], 0)
  /\ UnchangedButEnrichAll

\* the detail page request of record k ends (enrichMovieData catches what it
\* throws); the last of the batch settles Promise.all: lines 447-450
EnrichAllFetchDone(k) ==
  /\ enrichAll.pc = "batch"
  /\ k \in enrichAll.inflight
  /\ LET left == enrichAll.inflight \ {k} IN
     enrichAll' =
       [enrichAll EXCEPT !.inflight = left,
                         !.pc = IF left # {} THEN "batch"
                                ELSE IF enrichAll.start + BatchSize < enrichAll.n
                                     THEN "pause" ELSE "done"]
  /\ UnchangedButEnrichAll

\* the delay of line 449 ends: the next batch
EnrichAllPauseDone ==
  /\ enrichAll.pc = "pause"
  /\ enrichAll' = LaunchBatch(enrichAll, enrichAll.start + BatchSize)
  /\ UnchangedButEnrichAll

(***************************************************************************)
(* Actions: the Deduplicator taken alone                                   *)
(***************************************************************************)
DedupApply ==
  /\ pcD = "in"
  /\ dedupOut' = DeduplicateMovies(dedupIn)
  /\ pcD' = "out"
  /\ UNCHANGED <<dedupIn, pcX, extractIn, extractOut, login, enrichAll>>
  /\ UnchangedServices

\* deduplicateMovies is called on the array it returned
DedupAgain ==
  /\ pcD = "out"
  /\ dedupIn' = dedupOut.unique
  /\ dedupOut' = DeduplicateMovies(dedupOut.unique)
  /\ pcD' = "again"
  /\ UNCHANGED <<pcX, extractIn, extractOut, login, enrichAll>>
  /\ UnchangedServices

\* extractMovieData assigns the title of one node
ExtractApply ==
  /\ pcX = "in"
  /\ extractOut' = ExtractTitle(extractIn.matched, extractIn.text)
  /\ pcX' = "out"
  /\ UNCHANGED <<extractIn, pcD, dedupIn, dedupOut, login, enrichAll>>
  /\ UnchangedServices

\* extractMovieFromFileLink builds the record of one file link
FileLinkApply ==
  /\ pcX = "link"
  /\ extractOut' = ExtractMovieFromFileLink(extractIn.filename, extractIn.thisYear)
  /\ pcX' = "record"
  /\ UNCHANGED <<extractIn, pcD, dedupIn, dedupOut, login, enrichAll>>
  /\ UnchangedServices

\* the nodes that scrapeMovies and extractMoviesFromPage select on one page
CascadeApply ==
  /\ pcX = "page"
  /\ extractOut' = [main    |-> SelectNodes(MainSelectors, extractIn, 1),
                    further |-> SelectNodes(PageSelectors, extractIn, 1)]
  /\ pcX' = "selected"
  /\ UNCHANGED <<extractIn, pcD, dedupIn, dedupOut, login, enrichAll>>
  /\ UnchangedServices

(***************************************************************************)
(* Specifications                                                          *)
(***************************************************************************)
\* the constructors: authService.js:25-27, scraperService.js:7-9
InitServices ==
  /\ isAuthenticated = FALSE
  /\ lastAuthTime = NoTime
  /\ authRetries = 0
  /\ moviesCache = [arr |-> 0, items |-> <<>>]
  /\ lastScrapeTime = NoTime
  /\ isScrapingInProgress = FALSE
  /\ hasRetriedAuth = FALSE
  /\ pc = [p \in Callers |-> "idle"]
  /\ crawl = [c \in Crawlers |-> FreshCrawl]
  /\ auth = [p \in Callers |-> NoAuthCall]
  /\ stale = NotStale
  /\ now = 0

NoDedup ==
  /\ pcD = "idle"
  /\ dedupIn = <<>>
  /\ dedupOut = [movies |-> <<>>, unique |-> <<>>]

NoExtract ==
  /\ pcX = "idle"
  /\ extractIn = [matched |-> <<>>, text |-> <<>>]
  /\ extractOut = <<>>

Init == InitServices /\ NoDedup /\ NoExtract /\ login = NoLogin /\ enrichAll = NoEnrichAll

\* A settled promise's continuation runs from the microtask queue, ahead of
\* every timer and every I/O callback: a caller takes its answer before any
\* other handler runs.
Quiet == \A p \in Callers : pc[p] # "done"

Next ==
  \/ \E c \in Crawlers : Quiet /\ ScrapeMoviesSkip(c)
  \/ \E c \in Crawlers : Quiet /\ ScrapeMoviesStart(c)
  \/ \E c \in Crawlers : Quiet /\ AuthSucceed(c)
  \/ \E c \in Crawlers, resp \in Responses : Quiet /\ AuthFail(c, resp)
  \/ \E c \in Crawlers : Quiet /\ AuthBackoffDone(c)
  \/ \E c \in Crawlers, resp \in Responses, listing \in MainListings, n \in PageUrlCounts :
        Quiet /\ MainResponse(c, resp, listing, n)
  \/ \E c \in Crawlers, resp \in Responses, links \in DetailPages :
        Quiet /\ EnrichResponse(c, resp, links)
  \/ \E c \in Crawlers, resp \in Responses, listing \in FurtherListings :
        Quiet /\ PageResponse(c, resp, listing)
  \/ \E c \in Crawlers : Quiet /\ PageDelayDone(c)
  \/ \E c \in Crawlers, resp \in Responses, listing \in DirectoryListings :
        Quiet /\ DirectoryResponse(c, resp, listing, 0)
  \/ \E c \in Crawlers : Quiet /\ DirectoryDelayDone(c)
  \/ \E c \in Crawlers : Quiet /\ RetryResume(c)
  \/ \E c \in Crawlers : CrawlReturn(c)
  \/ Quiet /\ Tick(MaxTime)

\* The crawls: scrapeMovies() called from the refresh route and from the
\* scheduler, with the clock passing the session's lifetime in one step.
Spec == Init /\ [][Next]_vars

\* The answers followed to the end of every crawl: a request completes (200),
\* is refused (401) or times out.  Whether a call ends depends on the answer's
\* status alone: the primary listing shows one record, every other page none.
AnsweredWith == {"200", "401", "timeout"}
ListingSeen == <<MainBeta>>
NothingSeen == <<>>

\* What the event loop owes a scrapeMovies() call that has begun: the answer
\* to each request it issues (every request completes or times out), the end
\* of each delay, and the resumption of its caller.
CrawlStep(c) ==
  \/ Quiet /\ AuthSucceed(c)
  \/ \E resp \in AnsweredWith : Quiet /\ AuthFail(c, resp)
  \/ Quiet /\ AuthBackoffDone(c)
  \/ \E resp \in AnsweredWith, n \in PageUrlCounts :
        Quiet /\ MainResponse(c, resp, ListingSeen, n)
  \/ \E resp \in AnsweredWith : Quiet /\ EnrichResponse(c, resp, NothingSeen)
  \/ \E resp \in AnsweredWith : Quiet /\ PageResponse(c, resp, NothingSeen)
  \/ Quiet /\ PageDelayDone(c)
  \/ \E resp \in AnsweredWith : Quiet /\ DirectoryResponse(c, resp, NothingSeen, 0)
  \/ Quiet /\ DirectoryDelayDone(c)
  \/ Quiet /\ RetryResume(c)
  \/ CrawlReturn(c)

NextFair ==
  \/ \E c \in Crawlers : Quiet /\ ScrapeMoviesSkip(c)
  \/ \E c \in Crawlers : Quiet /\ ScrapeMoviesStart(c)
  \/ \E c \in Crawlers : CrawlStep(c)

\* The crawls with every request answered and every timer fired.  A callback
\* that is ready waits while the continuations of settled promises run (Quiet)
\* and is run by the event loop after them: it is taken if it is ready again
\* and again.
SpecFair == Init /\ [][NextFair]_vars /\ \A c \in Crawlers : SF_vars(CrawlStep(c))

\* The session taken alone: authenticate(), ensureAuthenticated() and reset()
\* called from the login route and the poster proxy, with the clock.
NextSession ==
  \/ \E p \in AuthCallers : Quiet /\ ExtAuthenticate(p)
  \/ \E p \in AuthCallers : Quiet /\ ExtEnsureAuthenticated(p)
  \/ \E p \in AuthCallers : Quiet /\ ExtReset(p)
  \/ \E p \in AuthCallers : Quiet /\ AuthSucceed(p)
  \/ \E p \in AuthCallers, resp \in Responses : Quiet /\ AuthFail(p, resp)
  \/ \E p \in AuthCallers : Quiet /\ AuthBackoffDone(p)
  \/ \E p \in AuthCallers : ExtReturn(p)
  \/ \E d \in Ticks : Quiet /\ Tick(d)

SpecSession == Init /\ [][NextSession]_vars

\* The walkers taken alone: one scrapeMovies() call of the scheduler whose
\* login and main listing succeed, over listings with few and with many page
\* URLs and directory pages with few and with many subdirectories.
NextWalk ==
  \/ ScrapeMoviesStart("cron")
  \/ AuthSucceed("cron")
  \/ \E n \in WalkPageCounts : MainResponse("cron", "200", <<MainBeta>>, n)
  \/ \E resp \in WalkResponses, links \in DetailPages : EnrichResponse("cron", resp, links)
  \/ \E resp \in WalkResponses, listing \in FurtherListings :
        PageResponse("cron", resp, listing)
  \/ PageDelayDone("cron")
  \/ \E resp \in WalkResponses, listing \in DirectoryListings, links \in DirLinkCounts :
        DirectoryResponse("cron", resp, listing, links)
  \/ \E resp \in WalkResponses, listing \in DirectoryListings :
        SubdirResponse("cron", resp, listing)
  \/ DirectoryDelayDone("cron")
  \/ CrawlReturn("cron")

SpecWalk == Init /\ [][NextWalk]_vars

InitDedup ==
  /\ InitServices
  /\ pcD = "in"
  /\ dedupIn \in DedupInputs
  /\ dedupOut = [movies |-> <<>>, unique |-> <<>>]
  /\ NoExtract
  /\ login = NoLogin
  /\ enrichAll = NoEnrichAll

NextDedup == DedupApply \/ DedupAgain

SpecDedup == InitDedup /\ [][NextDedup]_vars

\* The title rule taken alone: extractMovieData over the nodes of ExtractInputs.
InitExtract ==
  /\ InitServices
  /\ NoDedup
  /\ pcX = "in"
  /\ extractIn \in ExtractInputs
  /\ extractOut = <<>>
  /\ login = NoLogin
  /\ enrichAll = NoEnrichAll

NextExtract == ExtractApply

SpecExtract == InitExtract /\ [][NextExtract]_vars

\* The node selection taken alone, over the pages of CascadePages.
InitCascade ==
  /\ InitServices
  /\ NoDedup
  /\ pcX = "page"
  /\ extractIn \in CascadePages
  /\ extractOut = <<>>
  /\ login = NoLogin
  /\ enrichAll = NoEnrichAll

NextCascade == CascadeApply

SpecCascade == InitCascade /\ [][NextCascade]_vars

\* The records of file links taken alone, over the file names of FileNames.
InitFileLink ==
  /\ InitServices
  /\ NoDedup
  /\ pcX = "link"
  /\ extractIn \in FileInputs
  /\ extractOut = <<>>
  /\ login = NoLogin
  /\ enrichAll = NoEnrichAll

NextFileLink == FileLinkApply

SpecFileLink == InitFileLink /\ [][NextFileLink]_vars

\* One call of the enrich-all route taken alone.
NextEnrichAll ==
  \/ \E n \in EnrichCounts, skip \in SkipSteps, authOk \in BOOLEAN :
        EnrichAllStart(n, skip, authOk)
  \/ \E k \in enrichAll.inflight : EnrichAllFetchDone(k)
  \/ EnrichAllPauseDone

SpecEnrichAll == Init /\ [][NextEnrichAll]_vars

\* One pass of the login taken alone, over the login pages of LoginPages.
NextLogin ==
  \/ LoginStart
  \/ \E resp \in LoginAnswers, page \in LoginPages : LoginPageResponse(resp, page)
  \/ \E resp \in LoginAnswers : ProbeResponse(resp)
  \/ \E resp \in LoginAnswers : EntryResponse(resp)
  \/ \E resp \in LoginAnswers : VerifyResponse(resp)

SpecLogin == Init /\ [][NextLogin]_vars

(***************************************************************************)
(* Properties                                                              *)
(***************************************************************************)
\* the scrapeMovies() calls between their first statement and their return
FetchSequences == {c \in Crawlers : InFlight(c)}

\* the session test in the words of the specification
Expired == ~isAuthenticated \/ lastAuthTime = NoTime \/ now - lastAuthTime > SessionTTL

\* the deduplication key as a triple
KeyOf(movie) == <<NormalizedTitle(movie), movie.year, LastSegment(FirstUrl(movie))>>

\* C1: at any moment at most one scrapeMovies() call is executing a fetch
\* sequence; a call that arrives while another is in flight begins no fetch
\* sequence, issues no request and returns at once what the cache holds.
C1_AtMostOneCrawl ==
  /\ [](Cardinality(FetchSequences) <= 1)
  /\ [][\A c \in Crawlers :
          (pc[c] = "idle" /\ pc'[c] # "idle" /\ FetchSequences # {})
            => /\ pc'[c] = "done"
               /\ crawl'[c].outcome = "returned"
               /\ crawl'[c].runs = 0
               /\ ~crawl'[c].issued
               /\ crawl'[c].returnedCache]_vars

\* a call has been answered from the cache while the other call, which has
\* issued a request, is still in flight
C1_Witness ==
  \E c, q \in Crawlers :
    /\ c # q
    /\ pc[c] = "done" /\ crawl[c].coalesced /\ crawl[c].returnedCache
    /\ InFlight(q) /\ crawl[q].issued

\* C2: whatever getMovies() returns changes only by the cache being given a
\* new list, the complete deduplicated result a call returns, at the moment
\* that call returns it; a list the cache has held is never changed in place
\* and never holds a partly merged result.
C2_AtomicCacheSwap ==
  [][GetMovies' # GetMovies =>
       /\ moviesCache'.arr # moviesCache.arr
       /\ \E c \in Crawlers :
            /\ InFlight(c) /\ pc'[c] = "done"
            /\ crawl'[c].outcome = "returned"
            /\ crawl'[c].returnedCache]_vars

\* C3: when a scrapeMovies() call that ran its own fetch sequence returns a
\* list, the cache holds that list: the same records in the same order.
C3_CacheHoldsResult ==
  \A c \in Crawlers :
    (pc[c] = "done" /\ crawl[c].outcome = "returned" /\ ~crawl[c].coalesced)
      => crawl[c].returnedCache

\* C4: when a scrapeMovies() call raises, neither the cached list nor
\* lastScrapeTime has changed since the call was made.
C4_FailureLeavesCache ==
  \A c \in Crawlers :
    (pc[c] = "done" /\ crawl[c].outcome = "raised") => ~crawl[c].cacheChanged

\* a call has raised over a cache that an earlier call had filled
C4_Witness ==
  \E c \in Crawlers :
    /\ pc[c] = "done" /\ crawl[c].outcome = "raised" /\ crawl[c].issued
    /\ GetMovies # <<>> /\ GetLastScrapeTime # NoTime

\* C5: a scrapeMovies() call in which a 401/403 failure was caught has, by
\* the time it completes, run the fetch sequence a second time.
C5_RetriedOnce ==
  \A c \in Crawlers :
    (pc[c] = "done" /\ Denied(crawl[c].error)) => crawl[c].runs = 2

\* C6: a scrapeMovies() call that issued requests and was answered 401 or 403
\* every time completes by raising; it returns no list.
C6_PersistentDenialRaises ==
  \A c \in Crawlers :
    (pc[c] = "done" /\ crawl[c].issued /\ crawl[c].allDenied)
      => crawl[c].outcome = "raised"

\* C7: an authenticate() call entered with the retry counter at 0, while
\* nobody else writes the session, begins at most MaxRetries login sequences,
\* and when every one of them fails it raises after exactly MaxRetries.
C7_RetryBound ==
  \A p \in Callers :
    (auth[p].via # "none" /\ auth[p].startRetries = 0 /\ auth[p].alone)
      => /\ auth[p].attempts <= MaxRetries
         /\ auth[p].outcome = "raised" => auth[p].attempts = MaxRetries

\* an authenticate() call entered with the counter at 0 has raised after its
\* third login sequence
C7_Witness ==
  \E p \in AuthCallers :
    /\ pc[p] = "done" /\ auth[p].outcome = "raised"
    /\ auth[p].startRetries = 0 /\ auth[p].alone /\ auth[p].attempts = 3

\* C8: ensureAuthenticated() invokes authenticate() exactly when the session
\* is not authenticated, has no lastAuthTime, or its lastAuthTime is more than
\* SessionTTL minutes old; otherwise it returns with no request issued and the
\* session as it was.
C8_SessionExpiry ==
  [][\A p \in AuthCallers :
       (pc[p] = "idle" /\ pc'[p] # "idle" /\ auth'[p].via = "ensure")
         => /\ (pc'[p] = "auth" /\ auth'[p].attempts = 1) <=> Expired
            /\ pc'[p] # "auth"
                 => /\ pc'[p] = "done" /\ auth'[p].attempts = 0
                    /\ UNCHANGED <<isAuthenticated, lastAuthTime, authRetries>>]_vars

\* ensureAuthenticated() has invoked authenticate() on an authenticated
\* session whose lastAuthTime is 61 minutes old
C8_Witness ==
  \E p \in AuthCallers :
    /\ pc[p] = "auth" /\ auth[p].via = "ensure" /\ auth[p].attempts = 1
    /\ isAuthenticated /\ lastAuthTime # NoTime /\ now - lastAuthTime = 61

\* C9: once a request of a crawl made with the shared client has been
\* answered 401 or 403, and until a login succeeds, ensureAuthenticated()
\* would invoke authenticate().
C9_DenialMakesStale == stale => NeedsAuthentication(SessionNow, now)

\* C10: no two records of the list deduplicateMovies returns have the same
\* key (normalized title, year, basename of the first download link's url).
C10_DistinctKeys ==
  pcD = "out" =>
    \A i, j \in 1..Len(dedupOut.unique) :
      i # j => KeyOf(dedupOut.unique[i]) # KeyOf(dedupOut.unique[j])

\* the urls of a record's download links
LinkUrls(movie) == {movie.downloadUrls[k].url : k \in DOMAIN movie.downloadUrls}

\* C11: the records {title "Alpha", year "2021", one link .../alpha_hd.mp4} and
\* {title "alpha!", year "2021", one link .../ALPHA_HD.mp4} are returned by
\* deduplicateMovies as one record whose links hold both urls.
C11_KeyEquivalence ==
  (pcD = "out" /\ dedupIn = <<SynthAlpha, SynthAlphaUpper>>)
    => /\ Len(dedupOut.unique) = 1
       /\ {UrlAlphaHd, UrlAlphaHdUpper} \subseteq LinkUrls(dedupOut.unique[1])

\* a list made of a record followed by an exact copy of it has been deduplicated
CopyDeduplicated == pcD = "out" /\ Len(dedupIn) = 2 /\ dedupIn[1] = dedupIn[2]

DistinctLinks(links) ==
  \A i, j \in DOMAIN links :
    i # j => /\ links[i].url # links[j].url
             /\ <<links[i].quality, links[i].format>> # <<links[j].quality, links[j].format>>

\* C13: in every record deduplicateMovies returns, no two download links have
\* the same url and no two have the same (quality, format) pair.
C13_LinksDistinct ==
  pcD = "out" =>
    \A k \in DOMAIN dedupOut.unique : DistinctLinks(dedupOut.unique[k].downloadUrls)

\* the positions of a crawl after its main listing was read
AfterListing == {"enrich", "page", "pageDelay", "dir", "subdir", "dirDelay"}

\* the answers with which a request fails: client.get rejects
FailedResponses == {r \in Responses : IsAuthError(r) \/ r = "timeout"}

\* C14: once the login and the main listing request have succeeded, whatever
\* the answer to a later request (detail page, further page, directory,
\* subdirectory) the crawl goes on with the next page, path or subdirectory,
\* and it ends by returning a list.
C14_LaterFailuresTolerated ==
  [][\A c \in Crawlers :
       (pc[c] \in AfterListing /\ pc'[c] # "idle")
         => /\ \/ pc'[c] \in AfterListing
               \/ /\ pc'[c] = "done"
                  /\ crawl'[c].outcome = "returned"
                  /\ crawl'[c].error = "none"
            /\ (pc[c] = "page" /\ crawl[c].idx < crawl[c].pages)
                 => pc'[c] \in {"page", "pageDelay"}
            /\ (pc[c] = "dir" /\ crawl[c].idx < MaxDirectoryPaths)
                 => pc'[c] \in {"dir", "subdir", "dirDelay"}
            /\ (pc[c] = "subdir" /\ crawl[c].subIdx < Min(crawl[c].dirLinks, MaxSubdirs))
                 => pc'[c] = "subdir"]_vars

\* a crawl has returned a list although a request after its main listing was
\* answered 401
C14_Witness ==
  /\ pc["cron"] = "done"
  /\ crawl["cron"].outcome = "returned"
  /\ crawl["cron"].runs = 1
  /\ ~crawl["cron"].allDenied
  /\ stale

\* C15: when the detail page request of an enrichment fails, every field of
\* every record is as it was and the crawl goes on; nothing is thrown.
C15_FailedEnrichmentKeepsRecord ==
  [][\A c \in Crawlers, resp \in FailedResponses :
       EnrichResponse(c, resp, <<>>)
         => /\ crawl'[c].movies = crawl[c].movies
            /\ pc'[c] \in AfterListing
            /\ crawl'[c].error = "none"]_vars

\* the only enrichment of a crawl was answered 401 and the crawl is at its
\* first further page with the record as it was extracted
C15_Witness ==
  /\ pc["cron"] = "page"
  /\ crawl["cron"].idx = 1
  /\ crawl["cron"].movies = <<MainBeta>>
  /\ crawl["cron"].additional = <<>>
  /\ stale

\* C16: a subdirectory is fetched only from a directory page that lists more
\* than 0 and fewer than 50 directory links, at most 10 and at most as many as
\* the page lists; the answer to a subdirectory request leads to the next
\* subdirectory of the same page or to the delay, never to a deeper one.
C16_RecursionBound ==
  /\ [](\A c \in Crawlers :
          pc[c] = "subdir"
            => /\ crawl[c].dirLinks > 0 /\ crawl[c].dirLinks < 50
               /\ crawl[c].subIdx >= 1 /\ crawl[c].subIdx <= 10
               /\ crawl[c].subIdx <= crawl[c].dirLinks)
  /\ [][\A c \in Crawlers :
          (pc[c] = "subdir" /\ pc'[c] # "idle")
            => \/ /\ pc'[c] = "subdir"
                  /\ crawl'[c].dirLinks = crawl[c].dirLinks
                  /\ crawl'[c].subIdx = crawl[c].subIdx + 1
               \/ pc'[c] = "dirDelay"]_vars

\* the tenth subdirectory of a directory page that lists twelve is being
\* fetched
C16_Witness ==
  /\ pc["cron"] = "subdir"
  /\ crawl["cron"].dirLinks = 12
  /\ crawl["cron"].subIdx = 10

\* C17: a crawl requests at most 20 further pages, the failed requests
\* counted, and one at a time: a page is requested when the crawl leaves the
\* enrichment, or when the request before it, and its delay, has ended.
C17_PageBound ==
  /\ [](\A c \in Crawlers : pc[c] \in {"page", "pageDelay"} => crawl[c].idx <= 20)
  /\ [][\A c \in Crawlers :
          (pc'[c] = "page" /\ (pc[c] # "page" \/ crawl'[c].idx # crawl[c].idx))
            => \/ pc[c] \in {"main", "enrich"} /\ crawl'[c].idx = 1
               \/ pc[c] \in {"page", "pageDelay"} /\ crawl'[c].idx = crawl[c].idx + 1]_vars

\* the twentieth further page of a listing with more page URLs is being
\* requested, the requests before it having found nothing
C17_Witness ==
  /\ pc["cron"] = "page"
  /\ crawl["cron"].idx = 20
  /\ crawl["cron"].additional = <<>>

\* C18: a further page after the first, and a directory path after the first,
\* is requested only when the delay that follows the request before it has
\* ended, whatever the answer to that request.
C18_DelayBetweenFetches ==
  [][\A c \in Crawlers :
       /\ (pc'[c] = "page" /\ crawl'[c].idx > 1 /\ crawl'[c].idx # crawl[c].idx)
            => pc[c] = "pageDelay"
       /\ (pc'[c] = "dir" /\ crawl'[c].idx > 1 /\ crawl'[c].idx # crawl[c].idx)
            => pc[c] = "dirDelay"]_vars

\* C19: the title that extractMovieData assigns to a record is never '1080P'
\* nor 'CAM-RIP' and never contains 'WEB-DL', whichever selector or fallback
\* it came from.
C19_TitleNotRejected ==
  pcX = "out"
    => /\ extractOut # Tok1080P
       /\ extractOut # TokCamRip
       /\ ~Contains(extractOut, TokWebDl)

\* the ids that extractMovieData and extractMovieFromFileLink assign
ExtractorId(id) == id # <<>> /\ id[1] \in {"main", "pagination", "dir"}

\* C20: deduplicateMovies leaves the id of every record that carries an
\* extractor's id (movie_main_*, movie_pagination_*, movie_dir_*) as it was,
\* and every record it returns is one of the records it was given, with that
\* id, whether other records were merged into it or not.
C20_IdStable ==
  pcD = "out"
    => /\ \A i \in DOMAIN dedupIn :
            ExtractorId(dedupIn[i].id) => dedupOut.movies[i].id = dedupIn[i].id
       /\ \A k \in DOMAIN dedupOut.unique :
            \E i \in DOMAIN dedupIn :
               /\ dedupOut.unique[k] = dedupOut.movies[i]
               /\ ExtractorId(dedupIn[i].id) => dedupOut.unique[k].id = dedupIn[i].id

\* a record of the main listing has taken the link of a record of a further
\* page and is returned under the id it came with
C20_Witness ==
  /\ pcD = "out"
  /\ dedupIn = <<MainAlpha, PageAlpha>>
  /\ Len(dedupOut.unique) = 1
  /\ Len(dedupOut.unique[1].downloadUrls) = 2
  /\ dedupOut.unique[1].id = MainAlpha.id

\* C21: authenticate() looks for an entry point first in the demo anchors and
\* controls of the login page, then in a form of the page, and last among the
\* well-known paths: no well-known path is requested when the login page has
\* a form.
C21_FormBeforePaths == login.pc = "probe" => ~login.page.form

\* the positions of the argument whose key no earlier position has
FirstSeen(movies) ==
  {i \in DOMAIN movies : \A j \in 1..(i - 1) : DedupKey(movies[j]) # DedupKey(movies[i])}

\* the k-th smallest member of a set of numbers
Nth(S, k) == CHOOSE i \in S : Cardinality({j \in S : j <= i}) = k

\* C22: deduplicateMovies returns one record for each key in the order in
\* which the keys first occur in its argument; against the first record of its
\* key, a returned record has the same title, year, quality and size, the
\* same poster, description, detailUrl, genres, rating and language wherever
\* that record had one, and that record's links first and in their order.
C22_BackfillOnly ==
  pcD = "out"
    => /\ Len(dedupOut.unique) = Cardinality(FirstSeen(dedupIn))
       /\ \A k \in DOMAIN dedupOut.unique :
            LET r == dedupIn[Nth(FirstSeen(dedupIn), k)]
                u == dedupOut.unique[k]
            IN /\ u.title = r.title /\ u.year = r.year
               /\ u.quality = r.quality /\ u.size = r.size
               /\ r.poster # "" => u.poster = r.poster
               /\ r.description # "" => u.description = r.description
               /\ r.detailUrl # <<>> => u.detailUrl = r.detailUrl
               /\ r.genres # <<>> => u.genres = r.genres
               /\ r.rating # "" => u.rating = r.rating
               /\ r.language # "" => u.language = r.language
               /\ Len(u.downloadUrls) >= Len(r.downloadUrls)
               /\ SubSeq(u.downloadUrls, 1, Len(r.downloadUrls)) = r.downloadUrls

\* a record of a further page with a poster, a language and a link of its own
\* was merged into a record of the main listing, which took the language and
\* the link and kept its poster; a record of another key follows it
C22_Witness ==
  /\ pcD = "out"
  /\ dedupIn = <<MainAlpha, PageAlpha, MainBeta>>
  /\ Len(dedupOut.unique) = 2
  /\ dedupOut.unique[1].poster = MainAlpha.poster
  /\ dedupOut.unique[1].language = PageAlpha.language
  /\ Len(dedupOut.unique[1].downloadUrls) = 2
  /\ dedupOut.unique[2] = MainBeta

\* C23: on every page, extractMoviesFromPage (further pages) selects the
\* nodes that the selection of scrapeMovies (main listing) selects.
C23_SameCascade == pcX = "selected" => extractOut.further = extractOut.main

\* the file name has a year, a quality token, something left for a title
HasYear(filename) == \E i \in DOMAIN filename : YearAt(filename, i)
HasQuality(filename) ==
  \E i \in DOMAIN filename, k \in DOMAIN QualityTokens : TokenAt(filename, i, k)

\* C24: in the record of a file link, the year is empty when the file name has
\* no year, the quality is empty when it has no quality token, and neither
\* the title nor the quality is a placeholder.
C24_AbsentIsEmpty ==
  pcX = "record"
    => /\ ~HasYear(extractIn.filename) => extractOut.year = <<>>
       /\ ~HasQuality(extractIn.filename) => extractOut.quality = <<>>
       /\ extractOut.title # TextUnknownMovie
       /\ extractOut.quality # TextUnknown

\* C25: in one run of the enrichment at most 5 detail page requests are in
\* flight at a time, and requests are issued only when none is in flight:
\* every request of the batch before has ended.
C25_BatchedEnrichment ==
  /\ [](Cardinality(enrichAll.inflight) <= 5)
  /\ [][enrichAll'.inflight \ enrichAll.inflight # {} => enrichAll.inflight = {}]_vars

\* the five requests of the second batch are in flight
C25_Witness ==
  /\ enrichAll.pc = "batch"
  /\ enrichAll.start = 5
  /\ Cardinality(enrichAll.inflight) = 5

\* C26: however authenticate(), ensureAuthenticated() and reset() calls
\* interleave, whenever isAuthenticated is true lastAuthTime is not null and
\* authRetries is 0.
C26_SessionInvariant == isAuthenticated => (lastAuthTime # NoTime /\ authRetries = 0)

\* the session is authenticated while an authenticate() call that has failed
\* at least once, and under which another call wrote the session, is under way
C26_Witness ==
  /\ isAuthenticated
  /\ \E p \in AuthCallers : auth[p].active /\ ~auth[p].alone /\ auth[p].attempts >= 2

\* C27: an authenticate() call entered after another has raised with the
\* retries used up (authRetries = MaxRetries, no reset() and no successful
\* login since), and left alone, makes MaxRetries attempts before it raises.
C27_BudgetPerCall ==
  \A p \in Callers :
    (/\ auth[p].outcome = "raised" /\ auth[p].alone /\ auth[p].startRetries = MaxRetries
     /\ \A q \in Callers \ {p} : ~auth[q].active)
      => auth[p].attempts = MaxRetries

\* C28: however the calls of the callers interleave, no authenticate() call
\* begins more than MaxRetries login sequences.
C28_AttemptsBounded == \A p \in Callers : auth[p].attempts <= MaxRetries

\* C30: deduplicateMovies called on the array it returned returns the same
\* records in the same order, each with the links, the fields and the id it
\* had.
C30_DedupIdempotent == pcD = "again" => dedupOut.unique = dedupIn

====
